---- MODULE Spec2Model ----
(***************************************************************************)
(* PageRank (src/pagerank.py): transition_model, sample_pagerank and       *)
(* iterate_pagerank as state machines.  Python floats are IEEE 754 doubles *)
(* and are computed as such: every operation rounds its exact result to 53 *)
(* bits.  Pages are the integers 1..N in the insertion order of the corpus *)
(* dict.  Beside the tables of the program, which hold floats, exact_rank  *)
(* holds the table that the same sweeps of iterate_pagerank give from the  *)
(* same arguments when no operation rounds.                                *)
(***************************************************************************)
EXTENDS Integers, FiniteSets, Sequences, TLC

VARIABLES corpus, damping_factor, call, pc, error, page, n, i,
          page_rank, new_page_rank, converged, todo, sweeps, result,
          exact_rank

vars == <<corpus, damping_factor, call, pc, error, page, n, i,
          page_rank, new_page_rank, converged, todo, sweeps, result,
          exact_rank>>

----------------------------------------------------------------------------
(* Bounds of the model *)

\* pages of a corpus given to transition_model
MaxPages == 3

\* pages of a corpus given to iterate_pagerank, the examples apart
MaxIteratePages == 2

\* pages of a corpus given to sample_pagerank
MaxSamplePages == 2

\* samples asked of sample_pagerank
MaxN == 3

\* pages of a corpus that is one directed cycle
MaxCycle == 4

\* the sweep counter of iterate_pagerank stops counting here; the loop of
\* the program has no limit and neither has the loop of the model
MaxSweeps == 40

----------------------------------------------------------------------------
(* Natural numbers of any size: little-endian sequences of limbs below     *)
(* Base, without leading zero limbs; <<>> is 0                             *)

LimbBits == 14

Base == 2 ^ LimbBits

Min(a, b) == IF a < b THEN a ELSE b

Limb(a, k) == IF k <= Len(a) THEN a[k] ELSE 0

ZeroLimbs(k) == [j \in 1..k |-> 0]

RECURSIVE Trim(_)
Trim(a) ==
    IF a # <<>> /\ a[Len(a)] = 0 THEN Trim(SubSeq(a, 1, Len(a) - 1)) ELSE a

RECURSIVE AddLimbs(_, _, _, _)
AddLimbs(a, b, k, carry) ==
    IF k > Len(a) /\ k > Len(b)
    THEN IF carry = 0 THEN <<>> ELSE <<carry>>
    ELSE LET s == Limb(a, k) + Limb(b, k) + carry
         IN  <<s % Base>> \o AddLimbs(a, b, k + 1, s \div Base)

BigAdd(a, b) == AddLimbs(a, b, 1, 0)

RECURSIVE SubLimbs(_, _, _, _)
SubLimbs(a, b, k, borrow) ==
    IF k > Len(a) THEN <<>>
    ELSE LET s == a[k] - Limb(b, k) - borrow
         IN  IF s < 0
             THEN <<s + Base>> \o SubLimbs(a, b, k + 1, 1)
             ELSE <<s>> \o SubLimbs(a, b, k + 1, 0)

\* a - b for a >= b
BigSub(a, b) == Trim(SubLimbs(a, b, 1, 0))

RECURSIVE CmpLimbs(_, _, _)
CmpLimbs(a, b, k) ==
    IF k = 0 THEN 0
    ELSE IF a[k] # b[k] THEN (IF a[k] < b[k] THEN -1 ELSE 1)
    ELSE CmpLimbs(a, b, k - 1)

\* -1, 0 or 1 as a < b, a = b or a > b
BigCmp(a, b) ==
    IF Len(a) # Len(b) THEN (IF Len(a) < Len(b) THEN -1 ELSE 1)
    ELSE CmpLimbs(a, b, Len(a))

RECURSIVE MulLimbs(_, _, _, _)
MulLimbs(a, f, k, carry) ==
    IF k > Len(a)
    THEN IF carry = 0 THEN <<>> ELSE <<carry>>
    ELSE LET s == a[k] * f + carry
         IN  <<s % Base>> \o MulLimbs(a, f, k + 1, s \div Base)

\* a * f for 0 <= f < Base
BigMulSmall(a, f) == IF f = 0 THEN <<>> ELSE MulLimbs(a, f, 1, 0)

RECURSIVE MulFrom(_, _, _)
MulFrom(a, b, k) ==
    IF k > Len(b) THEN <<>>
    ELSE BigAdd(ZeroLimbs(k - 1) \o BigMulSmall(a, b[k]), MulFrom(a, b, k + 1))

\* a * b, limb by limb of the shorter factor
BigMul(a, b) ==
    IF Len(a) < Len(b) THEN Trim(MulFrom(b, a, 1)) ELSE Trim(MulFrom(a, b, 1))

\* a * 2^s
BigShl(a, s) ==
    IF a = <<>> THEN <<>>
    ELSE ZeroLimbs(s \div LimbBits) \o BigMulSmall(a, 2 ^ (s % LimbBits))

RECURSIVE DivLimbs(_, _, _, _)
DivLimbs(a, f, k, rem) ==
    IF k = 0 THEN [q |-> <<>>, r |-> rem]
    ELSE LET cur == rem * Base + a[k]
             low == DivLimbs(a, f, k - 1, cur % f)
         IN  [q |-> low.q \o <<cur \div f>>, r |-> low.r]

\* quotient and remainder of a by f, 0 < f <= Base
BigDivMod(a, f) ==
    LET d == DivLimbs(a, f, Len(a), 0)
    IN  [q |-> Trim(d.q), r |-> d.r]

\* floor(a / 2^s), and whether a nonzero bit was shifted out
BigShr(a, s) ==
    LET whole == Min(s \div LimbBits, Len(a))
        d == BigDivMod(SubSeq(a, whole + 1, Len(a)), 2 ^ (s % LimbBits))
    IN  [q |-> d.q, lost |-> d.r # 0 \/ \E j \in 1..whole : a[j] # 0]

RECURSIVE Bits(_)
Bits(k) == IF k = 0 THEN 0 ELSE 1 + Bits(k \div 2)

BigBitLen(a) ==
    IF a = <<>> THEN 0 ELSE (Len(a) - 1) * LimbBits + Bits(a[Len(a)])

RECURSIVE LowZeros(_)
LowZeros(k) == IF k % 2 = 1 THEN 0 ELSE 1 + LowZeros(k \div 2)

RECURSIVE ZeroLimbCount(_, _)
ZeroLimbCount(a, k) == IF a[k] # 0 THEN 0 ELSE 1 + ZeroLimbCount(a, k + 1)

\* the number of trailing zero bits of a > 0
BigLowZeros(a) ==
    LET z == ZeroLimbCount(a, 1)
    IN  z * LimbBits + LowZeros(a[z + 1])

IsOdd(a) == a # <<>> /\ a[1] % 2 = 1

----------------------------------------------------------------------------
(* Python floats: IEEE 754 doubles.  A float is (-1)^neg * m * 2^e with m  *)
(* odd and below 2^Precision, or m = 0; every operation is the exact       *)
(* result rounded to nearest, ties to even.  The values of the program are *)
(* far from the overflow and subnormal ranges.                             *)

Precision == 53

\* the extra quotient bits of a division: the quotient of an odd mantissa
\* shifted by the guard and divided by a number below Base has more than
\* Precision + 1 bits
GuardBits == 5 * LimbBits

Zero == [neg |-> FALSE, m |-> <<>>, e |-> 0]

\* the float of the exact value (-1)^neg * m * 2^e, m of at most Precision bits
Canon(neg, m, e) ==
    IF m = <<>> THEN Zero
    ELSE LET z == BigLowZeros(m)
         IN  [neg |-> neg, m |-> BigShr(m, z).q, e |-> e + z]

\* round (-1)^neg * (m + s) * 2^e to a float, where 0 < s < 1 when sticky
\* and s = 0 otherwise: nearest, ties to even
Round(neg, m, e, sticky) ==
    LET k == BigBitLen(m) - Precision
        t == BigShr(m, k - 1)
        q == BigShr(t.q, 1).q
        up == IsOdd(t.q) /\ (t.lost \/ sticky \/ IsOdd(q))
    IN  IF k <= 0 THEN Canon(neg, m, e)
        ELSE Canon(neg, IF up THEN BigAdd(q, <<1>>) ELSE q, e + k)

AbsInt(x) == IF x < 0 THEN -x ELSE x

\* float(a) for an int a, |a| < Base
FromInt(a) == Canon(a < 0, IF a = 0 THEN <<>> ELSE <<AbsInt(a)>>, 0)

One == FromInt(1)

Neg(x) == IF x.m = <<>> THEN x ELSE [x EXCEPT !.neg = ~x.neg]

AbsR(x) == [x EXCEPT !.neg = FALSE]

\* x + y without rounding: m may have more than Precision bits
ExactAdd(x, y) ==
    IF x.m = <<>> THEN y
    ELSE IF y.m = <<>> THEN x
    ELSE LET e == Min(x.e, y.e)
             a == BigShl(x.m, x.e - e)
             b == BigShl(y.m, y.e - e)
             c == BigCmp(a, b)
         IN  IF x.neg = y.neg THEN [neg |-> x.neg, m |-> BigAdd(a, b), e |-> e]
             ELSE IF c = 0 THEN Zero
             ELSE IF c > 0 THEN [neg |-> x.neg, m |-> BigSub(a, b), e |-> e]
             ELSE [neg |-> y.neg, m |-> BigSub(b, a), e |-> e]

Add(x, y) ==
    LET s == ExactAdd(x, y)
    IN  Round(s.neg, s.m, s.e, FALSE)

Sub(x, y) == Add(x, Neg(y))

Mul(x, y) ==
    IF x.m = <<>> \/ y.m = <<>> THEN Zero
    ELSE Round(x.neg # y.neg, BigMul(x.m, y.m), x.e + y.e, FALSE)

\* x / k for an int k, 0 < k < Base
Div(x, k) ==
    IF x.m = <<>> THEN Zero
    ELSE LET d == BigDivMod(BigShl(x.m, GuardBits), k)
         IN  Round(x.neg, d.q, x.e - GuardBits, d.r # 0)

\* a / b for ints a and b, b > 0: the float nearest to the quotient, which is
\* also the float of a decimal literal of that value
Frac(a, b) == Div(FromInt(a), b)

\* -1, 0 or 1 as |x| < |y|, |x| = |y| or |x| > |y|
CmpAbs(x, y) ==
    IF x.m = <<>> THEN (IF y.m = <<>> THEN 0 ELSE -1)
    ELSE IF y.m = <<>> THEN 1
    ELSE LET e == Min(x.e, y.e)
         IN  BigCmp(BigShl(x.m, x.e - e), BigShl(y.m, y.e - e))

\* x > y
Gt(x, y) ==
    IF x.neg # y.neg THEN y.neg
    ELSE IF x.neg THEN CmpAbs(x, y) < 0
    ELSE CmpAbs(x, y) > 0

IsPositive(x) == ~x.neg /\ x.m # <<>>

InUnitInterval(x) == ~x.neg /\ ~Gt(x, One)

\* the sum of the ranks of a table as a real number, without any rounding
RECURSIVE ExactSumOver(_, _)
ExactSumOver(f, S) ==
    IF S = {} THEN Zero
    ELSE LET p == CHOOSE q \in S : TRUE
         IN  ExactAdd(f[p], ExactSumOver(f, S \ {p}))

ExactSum(f) == ExactSumOver(f, DOMAIN f)

\* |x - 1| <= 1 / 10^digits for an unrounded x
RECURSIVE BigPow10(_)
BigPow10(digits) ==
    IF digits = 0 THEN <<1>> ELSE BigMulSmall(BigPow10(digits - 1), 10)

NearOne(x, digits) ==
    LET d == ExactAdd(x, Neg(One))
    IN  \/ d.m = <<>>
        \/ /\ d.e < 0
           /\ BigCmp(BigMul(d.m, BigPow10(digits)), BigShl(<<1>>, -d.e)) <= 0

RECURSIVE SumInt(_, _)
SumInt(f, S) ==
    IF S = {} THEN 0
    ELSE LET p == CHOOSE q \in S : TRUE
         IN  f[p] + SumInt(f, S \ {p})

----------------------------------------------------------------------------
(* Program constants and inputs *)

DAMPING == Frac(17, 20)

THRESHOLD == Frac(1, 1000)

\* the q-th page other than p
Other(p, q) == IF q < p THEN q ELSE q + 1

\* corpora as crawl() builds them: every link is to another page of the
\* corpus; k = 0 is the empty corpus
ClosedCorpora(k) ==
    {[p \in 1..k |-> {Other(p, q) : q \in m[p]}] : m \in [1..k -> SUBSET (1..(k - 1))]}

Corpora == UNION {ClosedCorpora(k) : k \in 0..MaxPages}

SampleCorpora == UNION {ClosedCorpora(k) : k \in 0..MaxSamplePages}

\* three-page corpora: pages 1 and 2 link to 3 and 3 links to 1; no links
\* at all; a chain that ends in a page without links; a page with two links
\* beside a page with one and a page with none
ExampleCorpora ==
    {<<{3}, {3}, {1}>>, <<{}, {}, {}>>, <<{2}, {3}, {}>>, <<{2, 3}, {1}, {}>>}

IterateCorpora ==
    UNION {ClosedCorpora(k) : k \in 0..MaxIteratePages} \cup ExampleCorpora

\* the corpus in which every page of the sequence s links to the next one
\* and the last to the first
CycleThrough(s) ==
    LET k == Len(s)
    IN  [p \in 1..k |-> {s[((CHOOSE a \in 1..k : s[a] = p) % k) + 1]}]

Tours(k) ==
    {s \in [1..k -> 1..k] : s[1] = 1 /\ \A a, b \in 1..k : a # b => s[a] # s[b]}

\* a single page without links, or one directed cycle through pages 1..k
CycleCorpora ==
    {[p \in {1} |-> {}]} \cup
    UNION {{CycleThrough(s) : s \in Tours(k)} : k \in 2..MaxCycle}

\* damping factors in [0, 1] as ratios of ints: 0, 0.25, 0.85 and 1
DampingRatios == {<<0, 1>>, <<1, 4>>, <<17, 20>>, <<1, 1>>}

\* damping factors outside [0, 1]: -0.5 and 2
BadDampingRatios == {<<-1, 2>>, <<2, 1>>}

Dampings == {Frac(r[1], r[2]) : r \in DampingRatios}

BadDampings == {Frac(r[1], r[2]) : r \in BadDampingRatios}

None == <<>>

----------------------------------------------------------------------------
(* The same operations without rounding.  An exact table gives page p the  *)
(* value num[p] / den, with naturals num[p] and den that have no common    *)
(* factor; a damping factor enters it as the ratio it was given as.        *)

RECURSIVE GCD(_, _)
GCD(a, b) == IF b = 0 THEN a ELSE GCD(b, a % b)

LCM(a, b) == (a \div GCD(a, b)) * b

Max(a, b) == IF a > b THEN a ELSE b

\* a natural below Base
Big(a) == IF a = 0 THEN <<>> ELSE <<a>>

\* the ratio of ints that the damping factor d in [0, 1] was given as
ExactDamping(d) == CHOOSE r \in DampingRatios : Frac(r[1], r[2]) = d

Divides(f, a) == BigDivMod(a, f).r = 0

\* common factors f, f + 1, ... up to limit are divided out
RECURSIVE CastOut(_, _, _)
CastOut(t, f, limit) ==
    IF f > limit THEN t
    ELSE IF Divides(f, t.den) /\ \A p \in DOMAIN t.num : Divides(f, t.num[p])
    THEN CastOut([num |-> [p \in DOMAIN t.num |-> BigDivMod(t.num[p], f).q],
                  den |-> BigDivMod(t.den, f).q], f, limit)
    ELSE CastOut(t, f + 1, limit)

\* the table in lowest terms, when den has no prime factor above limit: the
\* common power of 2 is shifted out and the other common factors divided out
Lowest(t, limit) ==
    LET zeros == {BigLowZeros(t.den)} \cup
                 {BigLowZeros(t.num[p]) : p \in {q \in DOMAIN t.num : t.num[q] # <<>>}}
        z == CHOOSE y \in zeros : \A w \in zeros : y <= w
    IN  CastOut([num |-> [p \in DOMAIN t.num |-> BigShr(t.num[p], z).q],
                 den |-> BigShr(t.den, z).q], 3, limit)

\* 1 / num_pages for every page
ExactUniform(pages) ==
    [num |-> [p \in pages |-> <<1>>],
     den |-> IF pages = {} THEN <<1>> ELSE <<Cardinality(pages)>>]

\* lines 65-73 without rounding, for 0 <= d <= 1: in units of
\* 1 / (num_pages * len(links)) of the denominator of the damping factor
ExactTransitionModel(c, pg, d) ==
    LET pages == DOMAIN c
        num_pages == Cardinality(pages)
        links == c[pg]
        r == ExactDamping(d)
        base == Big((r[2] - r[1]) * Cardinality(links))
        share == Big(r[1] * num_pages)
    IN  IF links # {}
        THEN Lowest([num |-> [p \in pages |->
                                IF p \in links THEN BigAdd(base, share) ELSE base],
                     den |-> Big(r[2] * num_pages * Cardinality(links))],
                    Max(num_pages, r[2]))
        ELSE ExactUniform(pages)

\* the least common multiple of num_pages and every len(corpus[p]) not 0,
\* over the pages p..N
RECURSIVE Divisor(_, _)
Divisor(c, p) ==
    IF p > Cardinality(DOMAIN c) THEN Cardinality(DOMAIN c)
    ELSE LCM(IF c[p] = {} THEN 1 ELSE Cardinality(c[p]), Divisor(c, p + 1))

\* the inner loop, lines 118-122, without rounding, over the pages p..N:
\* rank_sum in units of 1 / k of the denominator of the table
RECURSIVE ExactRankSum(_, _, _, _, _, _)
ExactRankSum(c, pg, nums, k, p, rank_sum) ==
    LET num_pages == Cardinality(DOMAIN c)
        linked == IF pg \in c[p]
                  THEN BigAdd(rank_sum, BigMulSmall(nums[p], k \div Cardinality(c[p])))
                  ELSE rank_sum
        spread == IF Cardinality(c[p]) = 0
                  THEN BigAdd(linked, BigMulSmall(nums[p], k \div num_pages))
                  ELSE linked
    IN  IF p > num_pages THEN rank_sum
        ELSE ExactRankSum(c, pg, nums, k, p + 1, spread)

\* lines 116-123 for every page without rounding, for 0 <= d <= 1: the new
\* table (1 - d) / num_pages + d * rank_sum, read from the table t
ExactSweep(c, t, d) ==
    LET num_pages == Cardinality(DOMAIN c)
        r == ExactDamping(d)
        k == Divisor(c, 1)
        teleport == BigMulSmall(BigMulSmall(t.den, r[2] - r[1]), k \div num_pages)
    IN  IF DOMAIN c = {} THEN t
        ELSE Lowest([num |-> [pg \in DOMAIN c |->
                                BigAdd(teleport,
                                       BigMulSmall(ExactRankSum(c, pg, t.num, k, 1, <<>>), r[1]))],
                     den |-> BigMulSmall(BigMulSmall(t.den, r[2]), k)],
                    Max(num_pages, r[2]))

RECURSIVE SumNumsOver(_, _)
SumNumsOver(t, S) ==
    IF S = {} THEN <<>>
    ELSE LET p == CHOOSE q \in S : TRUE
         IN  BigAdd(t.num[p], SumNumsOver(t, S \ {p}))

\* the values of an exact table sum to exactly 1
ExactSumsToOne(t) == BigCmp(SumNumsOver(t, DOMAIN t.num), t.den) = 0

\* |x - num / den| <= 1 / 10^digits for a float x = m * 2^e: both sides
\* multiplied by den and, when e < 0, by 2^-e
CloseTo(x, num, den, digits) ==
    LET up == IF x.e < 0 THEN -x.e ELSE 0
        a == BigMul(den, IF x.e < 0 THEN x.m ELSE BigShl(x.m, x.e))
        b == BigShl(num, up)
        diff == IF BigCmp(a, b) >= 0 THEN BigSub(a, b) ELSE BigSub(b, a)
    IN  /\ ~x.neg
        /\ BigCmp(BigMul(diff, BigPow10(digits)), BigShl(den, up)) <= 0

\* every value of the float table is within 1 / 10^digits of the value the
\* exact table has for the page
TableCloseTo(f, t, digits) ==
    /\ DOMAIN f = DOMAIN t.num
    /\ \A p \in DOMAIN f : CloseTo(f[p], t.num[p], t.den, digits)

----------------------------------------------------------------------------
(* transition_model *)

\* a link's share divided by the number of pages instead of the number of links
TransitionModelShareByPages(c, pg, d) ==
    LET pages == DOMAIN c
        num_pages == Cardinality(pages)
        links == c[pg]
    IN  IF links # {}
        THEN [p \in pages |->
                IF p \in links
                THEN Add(Div(Sub(One, d), num_pages), Div(d, num_pages))
                ELSE Div(Sub(One, d), num_pages)]
        ELSE [p \in pages |-> Div(One, num_pages)]

\* no branch for a page without links: only the teleport share is given out
TransitionModelNoDeadEnd(c, pg, d) ==
    LET pages == DOMAIN c
        num_pages == Cardinality(pages)
        links == c[pg]
    IN  [p \in pages |->
            IF p \in links
            THEN Add(Div(Sub(One, d), num_pages), Div(d, Cardinality(links)))
            ELSE Div(Sub(One, d), num_pages)]

TransitionModel(c, pg, d) ==
    LET pages == DOMAIN c
        num_pages == Cardinality(pages)
        links == c[pg]
        teleport == Div(Sub(One, d), num_pages)
        share == Div(d, Cardinality(links))
        uniform == Div(One, num_pages)
    IN  IF links # {}
        THEN [p \in pages |->
                IF p \in links THEN Add(teleport, share) ELSE teleport]
        ELSE [p \in pages |-> uniform]

InitTransition ==
    /\ corpus \in Corpora
    /\ damping_factor \in Dampings \cup BadDampings
    /\ call = "transition_model"
    /\ pc = "start"
    /\ error = "none"
    /\ page \in 1..MaxPages
    /\ n = 0
    /\ i = 0
    /\ page_rank = None
    /\ new_page_rank = None
    /\ converged = FALSE
    /\ todo = {}
    /\ sweeps = 0
    /\ result = None
    /\ exact_rank = None

\* corpus[page] of line 63 raises KeyError when page is no key
TransitionRaises ==
    /\ call = "transition_model"
    /\ pc = "start"
    /\ page \notin DOMAIN corpus
    /\ pc' = "raised"
    /\ error' = "KeyError"
    /\ UNCHANGED <<exact_rank, corpus, damping_factor, call, page, n, i, page_rank,
                   new_page_rank, converged, todo, sweeps, result>>

TransitionReturns ==
    /\ call = "transition_model"
    /\ pc = "start"
    /\ page \in DOMAIN corpus
    /\ result' = TransitionModel(corpus, page, damping_factor)
    /\ pc' = "done"
    /\ UNCHANGED <<exact_rank, corpus, damping_factor, call, error, page, n, i, page_rank,
                   new_page_rank, converged, todo, sweeps>>

NextTransition == TransitionRaises \/ TransitionReturns

SpecTransition == InitTransition /\ [][NextTransition]_vars

----------------------------------------------------------------------------
(* sample_pagerank *)

InitSample ==
    /\ corpus \in SampleCorpora
    /\ damping_factor \in Dampings
    /\ call = "sample_pagerank"
    /\ pc = "start"
    /\ error = "none"
    /\ page = 0
    /\ n \in 0..MaxN
    /\ i = 0
    /\ page_rank = None
    /\ new_page_rank = None
    /\ converged = FALSE
    /\ todo = {}
    /\ sweeps = 0
    /\ result = None
    /\ exact_rank = None

\* page_rank[page] += 1
Visit(counts, pg) == [counts EXCEPT ![pg] = @ + 1]

\* random.choices(pages, weights): a page is drawn with probability equal to
\* its weight, so exactly the pages of positive weight can be drawn
Draw(distribution) == {p \in DOMAIN distribution : IsPositive(distribution[p])}

\* the counters divided by one more than their sum
NormalizeOffByOne(counts, total_samples) ==
    [p \in DOMAIN counts |-> Frac(counts[p], total_samples + 1)]

\* rank / total_samples for every page
Normalize(counts, total_samples) ==
    [p \in DOMAIN counts |-> Frac(counts[p], total_samples)]

\* lines 86-87; random.choice picks any page of the corpus
SampleStart ==
    /\ call = "sample_pagerank"
    /\ pc = "start"
    /\ DOMAIN corpus # {}
    /\ page_rank' = [p \in DOMAIN corpus |-> 0]
    /\ page' \in DOMAIN corpus
    /\ pc' = "loop"
    /\ UNCHANGED <<exact_rank, corpus, damping_factor, call, error, n, i,
                   new_page_rank, converged, todo, sweeps, result>>

\* random.choice of an empty list raises IndexError
SampleStartRaises ==
    /\ call = "sample_pagerank"
    /\ pc = "start"
    /\ DOMAIN corpus = {}
    /\ pc' = "raised"
    /\ error' = "IndexError"
    /\ UNCHANGED <<exact_rank, corpus, damping_factor, call, page, n, i, page_rank,
                   new_page_rank, converged, todo, sweeps, result>>

\* one pass of the loop, lines 89-92
SampleStep ==
    /\ call = "sample_pagerank"
    /\ pc = "loop"
    /\ i < n
    /\ page_rank' = Visit(page_rank, page)
    /\ page' \in Draw(TransitionModel(corpus, page, damping_factor))
    /\ i' = i + 1
    /\ UNCHANGED <<exact_rank, corpus, damping_factor, call, pc, error, n,
                   new_page_rank, converged, todo, sweeps, result>>

\* lines 94-97
SampleNormalize ==
    /\ call = "sample_pagerank"
    /\ pc = "loop"
    /\ i = n
    /\ LET total_samples == SumInt(page_rank, DOMAIN page_rank)
       IN  /\ total_samples # 0
           /\ page_rank' = Normalize(page_rank, total_samples)
           /\ result' = page_rank'
    /\ pc' = "done"
    /\ UNCHANGED <<exact_rank, corpus, damping_factor, call, error, page, n, i,
                   new_page_rank, converged, todo, sweeps>>

\* rank / total_samples raises ZeroDivisionError when no sample was taken
SampleNormalizeRaises ==
    /\ call = "sample_pagerank"
    /\ pc = "loop"
    /\ i = n
    /\ SumInt(page_rank, DOMAIN page_rank) = 0
    /\ pc' = "raised"
    /\ error' = "ZeroDivisionError"
    /\ UNCHANGED <<exact_rank, corpus, damping_factor, call, page, n, i, page_rank,
                   new_page_rank, converged, todo, sweeps, result>>

NextSample ==
    \/ SampleStart
    \/ SampleStartRaises
    \/ SampleStep
    \/ SampleNormalize
    \/ SampleNormalizeRaises

SpecSample == InitSample /\ [][NextSample]_vars

----------------------------------------------------------------------------
(* iterate_pagerank *)

InitIterate ==
    /\ corpus \in IterateCorpora
    /\ damping_factor \in Dampings
    /\ call = "iterate_pagerank"
    /\ pc = "start"
    /\ error = "none"
    /\ page = 0
    /\ n = 0
    /\ i = 0
    /\ page_rank = None
    /\ new_page_rank = None
    /\ converged = FALSE
    /\ todo = {}
    /\ sweeps = 0
    /\ result = None
    /\ exact_rank = None

\* the inner loop, lines 118-122, over the pages p..N with rank_sum so far
RECURSIVE RankSum(_, _, _, _, _)
RankSum(c, pg, ranks, p, rank_sum) ==
    LET num_pages == Cardinality(DOMAIN c)
        linked == IF pg \in c[p]
                  THEN Add(rank_sum, Div(ranks[p], Cardinality(c[p])))
                  ELSE rank_sum
        spread == IF Cardinality(c[p]) = 0
                  THEN Add(linked, Div(ranks[p], num_pages))
                  ELSE linked
    IN  IF p > num_pages THEN rank_sum
        ELSE RankSum(c, pg, ranks, p + 1, spread)

\* the rank of a dead end is not spread over the pages
RECURSIVE RankSumNoDeadEnd(_, _, _, _, _)
RankSumNoDeadEnd(c, pg, ranks, p, rank_sum) ==
    LET num_pages == Cardinality(DOMAIN c)
        linked == IF pg \in c[p]
                  THEN Add(rank_sum, Div(ranks[p], Cardinality(c[p])))
                  ELSE rank_sum
    IN  IF p > num_pages THEN rank_sum
        ELSE RankSumNoDeadEnd(c, pg, ranks, p + 1, linked)

NewRankNoDeadEnd(c, pg, ranks, d) ==
    Add(Div(Sub(One, d), Cardinality(DOMAIN c)),
        Mul(d, RankSumNoDeadEnd(c, pg, ranks, 1, Zero)))

\* the teleport share (1 - d) / N is left out
NewRankNoTeleport(c, pg, ranks, d) ==
    Mul(d, RankSum(c, pg, ranks, 1, Zero))

\* line 123
NewRank(c, pg, ranks, d) ==
    Add(Div(Sub(One, d), Cardinality(DOMAIN c)),
        Mul(d, RankSum(c, pg, ranks, 1, Zero)))

\* the sweep reads the table it is writing
RankSourceInPlace == new_page_rank

\* the table the inner loop reads, lines 120 and 122
RankSource == page_rank

\* the test passes whatever the changes are
WithinThresholdAlways(old, new) ==
    TRUE

\* the test passes only when no rank changed at all
WithinThresholdExact(old, new) ==
    \A p \in DOMAIN old : new[p] = old[p]

\* line 126 for every page
WithinThreshold(old, new) ==
    \A p \in DOMAIN old : ~Gt(AbsR(Sub(new[p], old[p])), THRESHOLD)

\* lines 109-112
IterateStart ==
    /\ call = "iterate_pagerank"
    /\ pc = "start"
    /\ page_rank' = [p \in DOMAIN corpus |-> Div(One, Cardinality(DOMAIN corpus))]
    /\ new_page_rank' = page_rank'
    /\ converged' = FALSE
    /\ exact_rank' = ExactUniform(DOMAIN corpus)
    /\ pc' = "while"
    /\ UNCHANGED <<corpus, damping_factor, call, error, page, n, i,
                   todo, sweeps, result>>

\* lines 114-115: the loop is entered
EnterSweep ==
    /\ call = "iterate_pagerank"
    /\ pc = "while"
    /\ ~converged
    /\ converged' = TRUE
    /\ todo' = DOMAIN corpus
    /\ pc' = "for"
    /\ UNCHANGED <<exact_rank, corpus, damping_factor, call, error, page, n, i,
                   page_rank, new_page_rank, sweeps, result>>

\* lines 116-123 for one page
UpdatePage ==
    /\ call = "iterate_pagerank"
    /\ pc = "for"
    /\ \E pg \in todo :
          /\ new_page_rank' =
                [new_page_rank EXCEPT ![pg] = NewRank(corpus, pg, RankSource, damping_factor)]
          /\ todo' = todo \ {pg}
    /\ UNCHANGED <<exact_rank, corpus, damping_factor, call, pc, error, page, n, i,
                   page_rank, converged, sweeps, result>>

\* lines 125-129; sweeps counts the passes of the while loop and stops
\* counting at MaxSweeps
CheckConverged ==
    /\ call = "iterate_pagerank"
    /\ pc = "for"
    /\ todo = {}
    /\ converged' = (converged /\ WithinThreshold(page_rank, new_page_rank))
    /\ page_rank' = new_page_rank
    /\ exact_rank' = ExactSweep(corpus, exact_rank, damping_factor)
    /\ sweeps' = Min(sweeps + 1, MaxSweeps)
    /\ pc' = "while"
    /\ UNCHANGED <<corpus, damping_factor, call, error, page, n, i,
                   new_page_rank, todo, result>>

\* lines 114 and 131: the loop is left and the table returned
IterateReturn ==
    /\ call = "iterate_pagerank"
    /\ pc = "while"
    /\ converged
    /\ result' = page_rank
    /\ pc' = "done"
    /\ UNCHANGED <<exact_rank, corpus, damping_factor, call, error, page, n, i,
                   page_rank, new_page_rank, converged, todo, sweeps>>

NextIterate ==
    \/ IterateStart
    \/ EnterSweep
    \/ UpdatePage
    \/ CheckConverged
    \/ IterateReturn

SpecIterate == InitIterate /\ [][NextIterate]_vars

\* main() calls iterate_pagerank(corpus, DAMPING); here on the cycle corpora
InitScenario ==
    /\ corpus \in CycleCorpora
    /\ damping_factor = DAMPING
    /\ call = "iterate_pagerank"
    /\ pc = "start"
    /\ error = "none"
    /\ page = 0
    /\ n = 0
    /\ i = 0
    /\ page_rank = None
    /\ new_page_rank = None
    /\ converged = FALSE
    /\ todo = {}
    /\ sweeps = 0
    /\ result = None
    /\ exact_rank = None

SpecScenario == InitScenario /\ [][NextIterate]_vars

----------------------------------------------------------------------------
(* All three functions *)

Init == InitTransition \/ InitSample \/ InitIterate

Next ==
    \/ TransitionRaises
    \/ TransitionReturns
    \/ SampleStart
    \/ SampleStartRaises
    \/ SampleStep
    \/ SampleNormalize
    \/ SampleNormalizeRaises
    \/ IterateStart
    \/ EnterSweep
    \/ UpdatePage
    \/ CheckConverged
    \/ IterateReturn

Spec == Init /\ [][Next]_vars

----------------------------------------------------------------------------
(* Properties *)

NumPages == Cardinality(DOMAIN corpus)

\* the values of the table, added without rounding, give exactly 1
SumsToOne(t) == ExactAdd(ExactSum(t), Neg(One)) = Zero

\* an entry for every page, no negative value, and the values sum to 1
\* within 1 / 10^digits
IsDistribution(t, digits) ==
    /\ DOMAIN t = DOMAIN corpus
    /\ \A p \in DOMAIN t : ~t[p].neg
    /\ NearOne(ExactSum(t), digits)

\* an exact table with an entry for every page (no value of it can be
\* negative) whose values sum to exactly 1
IsExactDistribution(t) ==
    /\ DOMAIN t.num = DOMAIN corpus
    /\ ExactSumsToOne(t)

\* C1: on a non-empty closed corpus, for a page of the corpus and a damping
\* in [0,1], transition_model returns a distribution with an entry for
\* every page and no negative value, whose values sum to exactly 1 in exact
\* arithmetic: the table that lines 65-73 give without rounding sums to
\* exactly 1, and the floats returned are within 1e-9 of its values and sum
\* to 1 within 1e-9.
C1_TransitionIsDistribution ==
    (/\ call = "transition_model"
     /\ pc = "done"
     /\ DOMAIN corpus # {}
     /\ InUnitInterval(damping_factor))
    => LET exact == ExactTransitionModel(corpus, page, damping_factor)
       IN  /\ IsExactDistribution(exact)
           /\ TableCloseTo(result, exact, 9)
           /\ IsDistribution(result, 9)

\* a table returned for damping 0.85 and a page with one link among three
\* pages: the exact values sum to 1 and the floats returned do not
C1_Witness ==
    /\ call = "transition_model"
    /\ pc = "done"
    /\ NumPages = 3
    /\ Cardinality(corpus[page]) = 1
    /\ damping_factor = DAMPING
    /\ IsExactDistribution(ExactTransitionModel(corpus, page, damping_factor))
    /\ IsDistribution(result, 9)
    /\ ~SumsToOne(result)

\* C7: for a page without outbound links transition_model returns exactly
\* the float 1 / N for every page, and the same table for every damping
\* value.
C7_DeadEndUniform ==
    (/\ call = "transition_model"
     /\ pc = "done"
     /\ corpus[page] = {})
    => /\ \A p \in DOMAIN corpus : result[p] = Frac(1, NumPages)
       /\ DOMAIN result = DOMAIN corpus
       /\ \A d \in Dampings \cup BadDampings :
             TransitionModel(corpus, page, d) = result

C7_Witness ==
    /\ call = "transition_model"
    /\ pc = "done"
    /\ NumPages = 3
    /\ corpus[page] = {}
    /\ damping_factor = Frac(2, 1)
    /\ \A p \in DOMAIN corpus : result[p] = Frac(1, 3)

\* C5: a call with a damping factor outside [0,1] never returns a
\* distribution or a rank table.
C5_BadDampingRejected ==
    pc = "done" => InUnitInterval(damping_factor)

\* C4: sample_pagerank and iterate_pagerank called with an empty corpus
\* return no rank table.
C4_EmptyCorpusFails ==
    (call \in {"sample_pagerank", "iterate_pagerank"} /\ DOMAIN corpus = {})
    => pc # "done"

\* C6: every loop step of sample_pagerank adds 1 to exactly one counter and
\* leaves the others, so the counters sum to n after the loop, and the
\* returned table has an entry for every page, no negative value and sum 1
\* within floating tolerance (1e-9).
C6_SampleCountsAndNormalizes ==
    [][call = "sample_pagerank" =>
        /\ (pc = "loop" /\ pc' = "loop") =>
              /\ \E p \in DOMAIN corpus :
                    page_rank' = [page_rank EXCEPT ![p] = @ + 1]
              /\ SumInt(page_rank', DOMAIN corpus) = i'
        /\ (pc = "loop" /\ pc' = "done") =>
              /\ n >= 1
              /\ SumInt(page_rank, DOMAIN corpus) = n
              /\ IsDistribution(result', 9)]_vars

\* three samples over two pages: the table 2/3, 1/3, whose values add up
\* to less than 1 by one rounding error
C6_Witness ==
    /\ call = "sample_pagerank"
    /\ pc = "done"
    /\ n = 3
    /\ NumPages = 2
    /\ \E p, q \in DOMAIN corpus :
          p # q /\ result[p] = Frac(2, 3) /\ result[q] = Frac(1, 3)
    /\ IsDistribution(result, 9)
    /\ ~SumsToOne(result)

\* C2: after every sweep of iterate_pagerank on a non-empty corpus with
\* damping in [0,1] the rank table has an entry for every page, no negative
\* rank and ranks that sum to exactly 1 in exact arithmetic: the table the
\* sweeps give without rounding sums to exactly 1 after every sweep, with
\* no renormalization; the floats of the program are within 1e-6 of its
\* values and sum to 1 within 1e-6, and the table returned is that table.
C2_SweepKeepsDistribution ==
    (/\ call = "iterate_pagerank"
     /\ DOMAIN corpus # {}
     /\ InUnitInterval(damping_factor)
     /\ pc \in {"while", "done"})
    => /\ IsExactDistribution(exact_rank)
       /\ TableCloseTo(page_rank, exact_rank, 6)
       /\ IsDistribution(page_rank, 6)
       /\ pc = "done" => result = page_rank

\* a table returned after three sweeps or more on three pages, one of them
\* without links: the exact ranks sum to 1 and the floats returned do not
C2_Witness ==
    /\ call = "iterate_pagerank"
    /\ pc = "done"
    /\ sweeps >= 3
    /\ NumPages = 3
    /\ \E p \in DOMAIN corpus : corpus[p] = {}
    /\ \E p \in DOMAIN corpus : corpus[p] # {}
    /\ \E p, q \in DOMAIN corpus : result[p] # result[q]
    /\ IsExactDistribution(exact_rank)
    /\ IsDistribution(result, 6)
    /\ ~SumsToOne(result)

\* C3: on a non-empty corpus with damping in [0,1) iterate_pagerank reaches
\* a passing sweep after finitely many sweeps and returns.  The loop has no
\* limit, and the sweep counter stops at MaxSweeps, which a run that sweeps
\* for ever reaches: for these dampings the count stays below MaxSweeps, so
\* every run makes fewer than MaxSweeps sweeps and then returns.
C3_IterateTerminates ==
    (/\ call = "iterate_pagerank"
     /\ DOMAIN corpus # {}
     /\ ~damping_factor.neg
     /\ Gt(One, damping_factor))
    => /\ sweeps < MaxSweeps
       /\ pc = "for" => todo \subseteq DOMAIN corpus
       /\ pc = "done" => converged /\ sweeps >= 1

\* a run with damping 0.85 that returned after more than 30 sweeps
C3_Witness ==
    /\ call = "iterate_pagerank"
    /\ pc = "done"
    /\ damping_factor = DAMPING
    /\ sweeps > 30

\* C8: on a single page without links or a single directed cycle, with
\* damping 0.85, the uniform table is a fixed point of the sweep: the
\* iteration converges in its first sweep and returns 1/N for every page.
C8_CycleStaysUniform ==
    /\ pc \in {"while", "done"} =>
          \A p \in DOMAIN corpus : page_rank[p] = Frac(1, NumPages)
    /\ pc = "done" =>
          /\ sweeps = 1
          /\ DOMAIN result = DOMAIN corpus
          /\ \A p \in DOMAIN corpus : result[p] = Frac(1, NumPages)

C8_Witness ==
    /\ pc = "done"
    /\ damping_factor = DAMPING
    /\ sweeps = 1
    /\ NumPages = 3
    /\ corpus[1] = {2} /\ corpus[2] = {3} /\ corpus[3] = {1}
    /\ \A p \in DOMAIN corpus : result[p] = Frac(1, 3)

\* C9: within a sweep the old table is not written; a visit of a page, in
\* whatever order the pages are visited, writes only that page's new rank,
\* computed from the old table; so when the sweep ends every new rank is
\* the one computed from the table as it was when the sweep began.
C9_SweepIsSynchronous ==
    [][(call = "iterate_pagerank" /\ pc = "for") =>
        /\ pc' = "for" =>
              /\ page_rank' = page_rank
              /\ \A p \in todo \ todo' :
                    new_page_rank'[p] = NewRank(corpus, p, page_rank, damping_factor)
              /\ \A p \in (DOMAIN corpus) \ (todo \ todo') :
                    new_page_rank'[p] = new_page_rank[p]
        /\ pc' = "while" =>
              \A p \in DOMAIN corpus :
                 /\ new_page_rank[p] = NewRank(corpus, p, page_rank, damping_factor)
                 /\ page_rank'[p] = new_page_rank[p]]_vars

\* a rank that differs from the old one has been written and a page that
\* reads it is still to be visited
C9_Witness ==
    /\ call = "iterate_pagerank"
    /\ pc = "for"
    /\ \E p \in (DOMAIN corpus) \ todo :
          /\ new_page_rank[p] # page_rank[p]
          /\ corpus[p] \cap todo # {}

\* C10: at least one sweep is made; a sweep passes exactly when no rank
\* changed by more than 0.001; another sweep is begun only after a sweep
\* that did not pass; the table returned is the new table of the sweep
\* that passed.
C10_StopsAtFirstPassingSweep ==
    [][call = "iterate_pagerank" =>
        /\ (pc = "for" /\ pc' = "while") =>
              /\ converged' =
                    (\A p \in DOMAIN corpus :
                        ~Gt(AbsR(Sub(new_page_rank[p], page_rank[p])), Frac(1, 1000)))
              /\ page_rank' = new_page_rank
        /\ (pc = "while" /\ pc' = "for") => ~converged
        /\ (pc = "while" /\ pc' = "done") =>
              /\ converged
              /\ sweeps >= 1
              /\ result' = new_page_rank]_vars

C10_Witness ==
    /\ call = "iterate_pagerank"
    /\ pc = "done"
    /\ sweeps = 3
    /\ result = new_page_rank
    /\ NumPages = 2

====
